---- MODULE Spec2Model ----
(***************************************************************************)
(* A model of the salt execution modules vyos.py and virsh.py.             *)
(*                                                                         *)
(*   Spec         the wired entry points of vyos.py, run_op_mode_command   *)
(*                and run_config_mode_command, statement by statement:     *)
(*                Router(), the sendline calls of execute_command,         *)
(*                expect(EOF), the line stripping, close_session.          *)
(*   SpecSession  the session state machine of vyos.py (_commit, _save,    *)
(*                _exit, _set, _delete) over the three session flags.      *)
(*   SpecVirsh    the calls of virsh.py against a hypervisor whose library *)
(*                calls may fail.                                          *)
(*                                                                         *)
(* Text is a sequence of one-character strings, so that str.startswith and *)
(* str.rstrip are computed on characters.                                  *)
(***************************************************************************)
EXTENDS Integers, Sequences, FiniteSets, TLC

VARIABLES
    pc,               \* position inside the running vyos entry point
    fn,               \* "none", "op" (run_op_mode_command), "config" (run_config_mode_command)
    command,          \* the command argument of the running call
    session,          \* "none", "open", "closed": the pexpect child of the call's Router
    terminated,       \* session.terminate(force=True) has run
    sendq,            \* lines execute_command has still to send
    sent,             \* lines written to the child so far, in order
    eof,              \* expect(pexpect.EOF) has returned
    before,           \* session.before.splitlines(): the raw output lines
    output,           \* the list execute_command builds and returns
    ret,              \* how the call ended: "none", "rejected", "output", "None", "raised"
    exc,              \* the exception that left the call, "" when none
    conf_mode,        \* Router.conf_mode
    session_modified, \* Router.session_modified
    session_saved,    \* Router.session_saved
    op,               \* SpecSession: the last state-machine call, arguments, outcome
    hv,               \* SpecVirsh: the hypervisor, domain name -> "running" | "shutoff"
    vcall             \* SpecVirsh: the last virsh call, its arguments, the failures met, its result

vyosVars == <<pc, fn, command, session, terminated, sendq, sent, eof, before, output, ret, exc>>
flagVars == <<conf_mode, session_modified, session_saved>>
sessVars == <<op>>
virshVars == <<hv, vcall>>
vars == <<vyosVars, flagVars, sessVars, virshVars>>

-----------------------------------------------------------------------------
(* Bounds *)

MaxLines == 6   \* the raw output of a command has 0..MaxLines lines

-----------------------------------------------------------------------------
(* Text *)

Str_show == <<"s","h","o","w">>
Str_set == <<"s","e","t">>
Str_run == <<"r","u","n">>
Str_load == <<"l","o","a","d">>
Str_config == <<"c","o","n","f","i","g">>
Str_commit == <<"c","o","m","m","i","t">>
Str_save == <<"s","a","v","e">>
Str_exit == <<"e","x","i","t">>
Str_export_term == <<"e","x","p","o","r","t"," ","T","E","R","M","=","x","t","e","r","m">>
Str_terminal_length == Str_set \o <<" ","t","e","r","m","i","n","a","l"," ","l","e","n","g","t","h"," ","0">>

\* str.startswith(prefix)
StartsWith(s, prefix) ==
    /\ Len(s) >= Len(prefix)
    /\ SubSeq(s, 1, Len(prefix)) = prefix

\* str.startswith(tuple of prefixes)
StartsWithAny(s, prefixes) == \E p \in prefixes : StartsWith(s, p)

\* the tuple of prefixes of run_config_mode_command
ConfigPrefixes ==
    { <<"c","o","n","f","i","r","m">>, <<"c","o","m","m","e","n","t">>,
      <<"c","o","m","p","a","r","e">>, <<"c","o","p","y">>,
      <<"d","e","l","e","t","e">>, <<"d","i","s","c","a","r","d">>,
      <<"e","d","i","t">>, Str_load, Str_load \o <<"k","e","y">>,
      <<"m","e","r","g","e">>, <<"r","e","n","a","m","e">>,
      <<"r","o","l","l","b","a","c","k">>, Str_run, Str_set, Str_show }

\* "{0} {1}".format(a, b)
Format2(a, b) == a \o <<" ">> \o b

\* the commands the entry points are called with
Commands ==
    { Format2(Str_show, <<"v">>),                      \* "show v"
      <<"r","e","l","o","a","d"," ","s">>,             \* "reload s"
      Str_show \o <<"x">>,                             \* "showx"
      <<"s","h","o">>,                                 \* "sho"
      <<>>,                                            \* ""
      <<" ">> \o Str_show,                             \* " show"
      Format2(Str_set, <<"a">>),                       \* "set a"
      Str_set \o <<"t","i","n","g","s"," ","a">>,      \* "settings a"
      Format2(Str_load \o <<"k","e","y">>, <<"a">>),   \* "loadkey a"
      Format2(Str_run, Str_show),                      \* "run show"
      Str_commit }                                     \* "commit"

-----------------------------------------------------------------------------
(* Router.execute_command: the lines it sends *)

\* Router.__init__: the two lines sent right after the spawn
InitLines == << Str_export_term, Str_terminal_length >>

\* the bracket with save sent before commit
ExecuteLines_saveFirst(cmd, config_mode_required) ==
    IF config_mode_required
    THEN << Str_config, cmd, Str_save, Str_commit, Str_exit, Str_exit >>
    ELSE << cmd, Str_exit >>

\* the sendline calls of execute_command, in order
ExecuteLines(cmd, config_mode_required) ==
    IF config_mode_required
    THEN << Str_config, cmd, Str_commit, Str_save, Str_exit, Str_exit >>
    ELSE << cmd, Str_exit >>

-----------------------------------------------------------------------------
(* Router.execute_command: the output list *)

StripChars == {"?", "[", "m"}

\* line.rstrip('?[m')
RECURSIVE Rstrip(_)
Rstrip(line) ==
    IF line # <<>> /\ line[Len(line)] \in StripChars
    THEN Rstrip(SubSeq(line, 1, Len(line) - 1))
    ELSE line

\* output = [line.rstrip('?[m') for line in before.splitlines()]
RstripAll(lines) == [i \in 1..Len(lines) |-> Rstrip(lines[i])]

remove_top_lines(config_mode_required) == 1 + (IF config_mode_required THEN 3 ELSE 0)
remove_bottom_lines(config_mode_required) == 2 + (IF config_mode_required THEN 1 ELSE 0)

\* len(range(1, stop, 1))
RangeCount(stop) == IF stop > 1 THEN stop - 1 ELSE 0

\* The result of a list operation: the list, or IndexError.
Ok(lines) == [ok |-> TRUE, lines |-> lines]
IndexError == [ok |-> FALSE, lines |-> <<>>]

\* k times del(output[0])
RECURSIVE DelFirst(_, _)
DelFirst(r, k) ==
    IF k = 0 \/ ~r.ok THEN r
    ELSE IF r.lines = <<>> THEN IndexError
    ELSE DelFirst(Ok(Tail(r.lines)), k - 1)

\* k times del(output[-1])
RECURSIVE DelLast(_, _)
DelLast(r, k) ==
    IF k = 0 \/ ~r.ok THEN r
    ELSE IF r.lines = <<>> THEN IndexError
    ELSE DelLast(Ok(SubSeq(r.lines, 1, Len(r.lines) - 1)), k - 1)

\* the stripping step of execute_command on the rstripped lines
StripLines(lines, config_mode_required) ==
    IF Len(lines) >= 3
    THEN DelLast(DelFirst(Ok(lines), RangeCount(remove_top_lines(config_mode_required))),
                 RangeCount(remove_bottom_lines(config_mode_required)))
    ELSE Ok(lines)

-----------------------------------------------------------------------------
(* The device's output *)

Digit == <<"1","2","3","4","5","6","7","8","9">>
Tails == { <<>>, <<"[","m">>, <<"m","?">>, <<"x">> }
AlreadyExists == "already exists"   \* the phrase, as one unit of text

\* n raw lines; line i is its number followed by the tail, and line `at`
\* (when at > 0) carries the phrase instead
RawOutput(n, tl, at) ==
    [i \in 1..n |-> IF i = at THEN <<Digit[i], AlreadyExists>> ELSE <<Digit[i]>> \o tl]

Contains(line, phrase) == \E i \in 1..Len(line) : line[i] = phrase

-----------------------------------------------------------------------------
(* Spec: run_op_mode_command and run_config_mode_command *)

\* a guard that looks at the first character only
OpModeAccepts_firstChar(cmd) == cmd # <<>> /\ cmd[1] = "s"

\* run_op_mode_command: command.startswith('show')
OpModeAccepts(cmd) == StartsWith(cmd, Str_show)

\* run_config_mode_command: command.startswith((...))
ConfigModeAccepts(cmd) == StartsWithAny(cmd, ConfigPrefixes)

\* run_op_mode_command: prefix = "run" if router.conf_mode else ""
OpPrefix(cm) == IF cm THEN Str_run ELSE <<>>

InitVyos ==
    /\ pc = "idle"
    /\ fn = "none"
    /\ command = <<>>
    /\ session = "none"
    /\ terminated = FALSE
    /\ sendq = <<>>
    /\ sent = <<>>
    /\ eof = FALSE
    /\ before = <<>>
    /\ output = <<>>
    /\ ret = "none"
    /\ exc = ""

\* Router.__init__: the flags of a fresh session
InitFlags ==
    /\ conf_mode = FALSE
    /\ session_modified = FALSE
    /\ session_saved = TRUE

\* Router(): the flags are set, the child is spawned, the two setup lines are sent
Router__init__ ==
    /\ conf_mode' = FALSE
    /\ session_modified' = FALSE
    /\ session_saved' = TRUE
    /\ session' = "open"
    /\ sent' = InitLines

\* run_op_mode_command(command), up to the first sendline of execute_command
run_op_mode_command(cmd) ==
    /\ pc = "idle"
    /\ fn' = "op"
    /\ command' = cmd
    /\ IF OpModeAccepts(cmd)
       THEN /\ Router__init__
            /\ sendq' = ExecuteLines(Format2(OpPrefix(conf_mode'), cmd), FALSE)
            /\ pc' = "send"
            /\ ret' = "none"
       ELSE /\ ret' = "rejected"
            /\ pc' = "done"
            /\ UNCHANGED <<flagVars, session, sent, sendq>>
    /\ UNCHANGED <<terminated, eof, before, output, exc, sessVars, virshVars>>

\* run_config_mode_command(command), up to the first sendline of execute_command
run_config_mode_command(cmd) ==
    /\ pc = "idle"
    /\ fn' = "config"
    /\ command' = cmd
    /\ IF ConfigModeAccepts(cmd)
       THEN /\ Router__init__
            /\ sendq' = ExecuteLines(cmd, TRUE)
            /\ pc' = "send"
            /\ ret' = "none"
       ELSE /\ ret' = "None"
            /\ pc' = "done"
            /\ UNCHANGED <<flagVars, session, sent, sendq>>
    /\ UNCHANGED <<terminated, eof, before, output, exc, sessVars, virshVars>>

\* an exception leaves execute_command and the entry point: nothing catches it
Raise(e) ==
    /\ pc' = "done"
    /\ ret' = "raised"
    /\ exc' = e

\* session.sendline(line): the line is written, or the write fails
sendline ==
    /\ pc = "send"
    /\ sendq # <<>>
    /\ \/ /\ sent' = Append(sent, Head(sendq))
          /\ sendq' = Tail(sendq)
          /\ pc' = IF Tail(sendq) = <<>> THEN "expect" ELSE "send"
          /\ UNCHANGED <<ret, exc>>
       \/ /\ Raise("OSError")
          /\ UNCHANGED <<sent, sendq>>
    /\ UNCHANGED <<fn, command, session, terminated, eof, before, output,
                   flagVars, sessVars, virshVars>>

\* session.expect(pexpect.EOF): the child ends and its output is read, or
\* the wait times out
expect_EOF ==
    /\ pc = "expect"
    /\ \/ /\ \E n \in 0..MaxLines, tl \in Tails :
                \E at \in 0..n : before' = RawOutput(n, tl, at)
          /\ eof' = TRUE
          /\ pc' = "strip"
          /\ UNCHANGED <<ret, exc>>
       \/ /\ Raise("TIMEOUT")
          /\ UNCHANGED <<before, eof>>
    /\ UNCHANGED <<fn, command, session, terminated, sendq, sent, output,
                   flagVars, sessVars, virshVars>>

\* execute_command, from "output = []" to "return output"
strip_output ==
    /\ pc = "strip"
    /\ LET r == StripLines(RstripAll(before), fn = "config")
       IN  IF r.ok
           THEN /\ output' = r.lines
                /\ pc' = "close"
                /\ UNCHANGED <<ret, exc>>
           ELSE /\ Raise("IndexError")
                /\ UNCHANGED output
    /\ UNCHANGED <<fn, command, session, terminated, sendq, sent, eof, before,
                   flagVars, sessVars, virshVars>>

\* router.close_session(); return output
close_session ==
    /\ pc = "close"
    /\ session' = "closed"
    /\ terminated' = TRUE
    /\ ret' = "output"
    /\ pc' = "done"
    /\ UNCHANGED <<fn, command, sendq, sent, eof, before, output, exc,
                   flagVars, sessVars, virshVars>>

\* the call is over; the next one starts from scratch
NextCall ==
    /\ pc = "done"
    /\ pc' = "idle"
    /\ fn' = "none"
    /\ command' = <<>>
    /\ session' = "none"
    /\ terminated' = FALSE
    /\ sendq' = <<>>
    /\ sent' = <<>>
    /\ eof' = FALSE
    /\ before' = <<>>
    /\ output' = <<>>
    /\ ret' = "none"
    /\ exc' = ""
    /\ conf_mode' = FALSE
    /\ session_modified' = FALSE
    /\ session_saved' = TRUE
    /\ UNCHANGED <<sessVars, virshVars>>

CallOp == \E cmd \in Commands : run_op_mode_command(cmd)
CallConfig == \E cmd \in Commands : run_config_mode_command(cmd)

-----------------------------------------------------------------------------
(* SpecSession: the session state machine *)
(* _commit, _save, _exit, _set and _delete read and write the attributes   *)
(* __conf_mode, __session_modified and __session_saved of the session and  *)
(* call its __execute_command; they are modelled on the session's three    *)
(* flags, with the device's answer given as the set of phrases it holds.   *)

CommitFailed == "Commit failed"
AnotherCommit == "another commit in progress"
SetFailed == "Set failed"
NothingToDelete == "Nothing to delete"
Phrases == {CommitFailed, AnotherCommit, SetFailed, AlreadyExists, NothingToDelete}

\* re.search(phrase, output)
Search(phrase, out) == phrase \in out

Flags == [conf |-> conf_mode, mod |-> session_modified, saved |-> session_saved]

\* what a call leaves behind: its name, its force argument, the command it
\* passed to __execute_command ("" when none), the device's answer, the
\* flags it started from and the exception it raised ("" when none)
Call(name, force, cmd, out, e) ==
    [name |-> name, force |-> force, cmd |-> cmd, out |-> out, pre |-> Flags, exc |-> e]

InitSess == op = [name |-> "new", force |-> FALSE, cmd |-> "", out |-> {},
                  pre |-> [conf |-> FALSE, mod |-> FALSE, saved |-> TRUE], exc |-> ""]

\* entering configuration mode
configure ==
    /\ conf_mode' = TRUE
    /\ op' = Call("configure", FALSE, "configure", {}, "")
    /\ UNCHANGED <<session_modified, session_saved>>

\* the exception _commit raises on the device's answer, "" when none
CommitRaises(out) ==
    IF Search(CommitFailed, out) THEN "CommitError"
    ELSE IF Search(AnotherCommit, out) THEN "ConfigLocked"
    ELSE ""

_commit(out) ==
    IF ~conf_mode
    THEN /\ op' = Call("commit", FALSE, "", {}, "VyOSError")
         /\ UNCHANGED flagVars
    ELSE IF ~session_modified
    THEN /\ op' = Call("commit", FALSE, "", {}, "ConfigError")
         /\ UNCHANGED flagVars
    ELSE /\ op' = Call("commit", FALSE, "commit", out, CommitRaises(out))
         /\ IF CommitRaises(out) # ""
            THEN UNCHANGED flagVars
            ELSE /\ session_modified' = FALSE
                 /\ session_saved' = FALSE
                 /\ UNCHANGED conf_mode

_save(out) ==
    IF ~conf_mode \/ session_modified
    THEN /\ op' = Call("save", FALSE, "", {}, "VyOSError")
         /\ UNCHANGED flagVars
    ELSE /\ op' = Call("save", FALSE, "save", out, "")
         /\ session_saved' = TRUE
         /\ UNCHANGED <<conf_mode, session_modified>>

_exit(force, out) ==
    IF ~conf_mode
    THEN /\ op' = Call("exit", force, "", {}, "")
         /\ UNCHANGED flagVars
    ELSE IF session_modified
    THEN IF ~force
         THEN /\ op' = Call("exit", force, "", {}, "VyOSError")
              /\ UNCHANGED flagVars
         ELSE /\ op' = Call("exit", force, "exit discard", out, "")
              /\ conf_mode' = FALSE
              /\ UNCHANGED <<session_modified, session_saved>>
    ELSE IF ~session_saved /\ ~force
    THEN /\ op' = Call("exit", force, "", {}, "VyOSError")
         /\ UNCHANGED flagVars
    ELSE /\ op' = Call("exit", force, "exit", out, "")
         /\ conf_mode' = FALSE
         /\ UNCHANGED <<session_modified, session_saved>>

\* the exception _set raises on the device's answer, "" when none
SetRaises(out) ==
    IF Search(SetFailed, out) \/ Search(AlreadyExists, out) THEN "ConfigError" ELSE ""

_set(out) ==
    IF ~conf_mode
    THEN /\ op' = Call("set", FALSE, "", {}, "ConfigError")
         /\ UNCHANGED flagVars
    ELSE /\ op' = Call("set", FALSE, "set", out, SetRaises(out))
         /\ session_modified' = (IF SetRaises(out) # "" THEN session_modified ELSE TRUE)
         /\ UNCHANGED <<conf_mode, session_saved>>

\* the exception _delete raises on the device's answer, "" when none
DeleteRaises(out) ==
    IF Search(NothingToDelete, out) THEN "ConfigError" ELSE ""

_delete(out) ==
    IF ~conf_mode
    THEN /\ op' = Call("delete", FALSE, "", {}, "ConfigError")
         /\ UNCHANGED flagVars
    ELSE /\ op' = Call("delete", FALSE, "delete", out, DeleteRaises(out))
         /\ session_modified' = (IF DeleteRaises(out) # "" THEN session_modified ELSE TRUE)
         /\ UNCHANGED <<conf_mode, session_saved>>

Configure == configure /\ UNCHANGED <<vyosVars, virshVars>>
Commit == \E out \in SUBSET Phrases : _commit(out) /\ UNCHANGED <<vyosVars, virshVars>>
Save == \E out \in SUBSET Phrases : _save(out) /\ UNCHANGED <<vyosVars, virshVars>>
Exit == \E force \in BOOLEAN, out \in SUBSET Phrases : _exit(force, out) /\ UNCHANGED <<vyosVars, virshVars>>
Set == \E out \in SUBSET Phrases : _set(out) /\ UNCHANGED <<vyosVars, virshVars>>
Delete == \E out \in SUBSET Phrases : _delete(out) /\ UNCHANGED <<vyosVars, virshVars>>

NextSession ==
    \/ Configure
    \/ Commit
    \/ Save
    \/ Exit
    \/ Set
    \/ Delete

-----------------------------------------------------------------------------
(* SpecVirsh: the calls of virsh.py *)

\* the domains of the hypervisor, in the order listAllDomains gives them
Domains == <<"web1", "web2", "db1">>
DomainNames == {Domains[i] : i \in 1..Len(Domains)}
\* the names a call may be given
Names == DomainNames \cup {"nope"}
\* the state arguments a call may be given
States == {"all", "running", "shutdown", "paused"}
\* the regular expressions a call may be given, and the names
\* re.search(match, name, re.I | re.S | re.M) finds each in
Patterns == {"^web", "DB", ".*", "^x"}
Matches(match, name) ==
    CASE match = "^web" -> name \in {"web1", "web2"}
      [] match = "DB" -> name = "db1"
      [] match = ".*" -> TRUE
      [] OTHER -> FALSE

\* conn.listAllDomains(code): 0 all, 1 running, 2 shut down
listAllDomains(code) ==
    SelectSeq(Domains, LAMBDA n : \/ code = 0
                                  \/ code = 1 /\ hv[n] = "running"
                                  \/ code = 2 /\ hv[n] = "shutoff")

\* what a call leaves behind: the function, its arguments, whether a library
\* step failed or an argument was invalid, and the result: "False", "True",
\* "list" (val holds it), "SystemExit" or "libvirtError" (raised to the caller)
VCall(f, args, failed, kind, val) ==
    [fn |-> f, args |-> args, failed |-> failed, kind |-> kind, val |-> val]

InitVirsh ==
    /\ hv = [n \in DomainNames |-> "shutoff"]
    /\ vcall = VCall("none", <<>>, FALSE, "none", <<>>)

\* _connect_to_libvirt: how a call ends when the connection is not opened,
\* "" when it is. open is "ok", "None" (libvirt.open returned None) or
\* "raise" (libvirt.open raised)
ConnectEnds(open) ==
    CASE open = "None" -> "SystemExit"
      [] open = "raise" -> "libvirtError"
      [] OTHER -> ""

\* list: the code of a state argument, -1 for the exit(1) branch
StateCode(state) ==
    CASE state = "all" -> 0
      [] state = "running" -> 1
      [] state = "shutdown" -> 2
      [] OTHER -> -1

\* list(match, state), with _list_vms inlined
list(match, state, open, listFails) ==
    /\ vcall' =
         IF StateCode(state) = -1
         THEN VCall("list", <<match, state>>, TRUE, "SystemExit", <<>>)
         ELSE IF ConnectEnds(open) # ""
         THEN VCall("list", <<match, state>>, TRUE, ConnectEnds(open), <<>>)
         ELSE IF listFails
         THEN VCall("list", <<match, state>>, TRUE, "False", <<>>)
         ELSE VCall("list", <<match, state>>, FALSE, "list",
                    SelectSeq(listAllDomains(StateCode(state)), LAMBDA n : Matches(match, n)))
    /\ UNCHANGED hv

\* conn.lookupByName(domain) raises for a name the hypervisor does not know
\* and whenever the library fails
LookupRaises(domain, lookupFails) == domain \notin DomainNames \/ domain \in lookupFails

\* one lookup and one lifecycle call on one domain, inside a try block:
\* the hypervisor afterwards
Lifecycle(h, domain, to, lookupFails, lifeFails) ==
    IF LookupRaises(domain, lookupFails) \/ domain \in lifeFails
    THEN h
    ELSE [h EXCEPT ![domain] = to]

\* shutdown and start: connect, then lookup and lifecycle call in a
\* try block whose handler returns False
single(f, args, domain, to, open, lookupFails, lifeFails) ==
    IF ConnectEnds(open) # ""
    THEN /\ vcall' = VCall(f, args, TRUE, ConnectEnds(open), <<>>)
         /\ UNCHANGED hv
    ELSE /\ hv' = Lifecycle(hv, domain, to, lookupFails, lifeFails)
         /\ vcall' = IF LookupRaises(domain, lookupFails) \/ domain \in lifeFails
                     THEN VCall(f, args, TRUE, "False", <<>>)
                     ELSE VCall(f, args, FALSE, "True", <<>>)

\* reboot leaves a domain in the state it was in
reboot(domain, open, lookupFails, lifeFails) ==
    /\ vcall' = IF ConnectEnds(open) # ""
                THEN VCall("reboot", <<domain>>, TRUE, ConnectEnds(open), <<>>)
                ELSE IF LookupRaises(domain, lookupFails) \/ domain \in lifeFails
                THEN VCall("reboot", <<domain>>, TRUE, "False", <<>>)
                ELSE VCall("reboot", <<domain>>, FALSE, "True", <<>>)
    /\ UNCHANGED hv

shutdown(domain, force, open, lookupFails, lifeFails) ==
    single("shutdown", <<domain, force>>, domain, "shutoff", open, lookupFails, lifeFails)

start(domain, open, lookupFails, lifeFails) ==
    single("start", <<domain>>, domain, "running", open, lookupFails, lifeFails)

\* shutdown_matching and start_matching: connect, list all domains (False
\* when that fails), then for every matching name a lookup and a lifecycle
\* call whose failure is logged; the names of all domains are returned
matching(f, args, match, to, open, listFails, lookupFails, lifeFails) ==
    IF ConnectEnds(open) # ""
    THEN /\ vcall' = VCall(f, args, TRUE, ConnectEnds(open), <<>>)
         /\ UNCHANGED hv
    ELSE IF listFails
    THEN /\ vcall' = VCall(f, args, TRUE, "False", <<>>)
         /\ UNCHANGED hv
    ELSE /\ hv' = [n \in DomainNames |->
                     IF Matches(match, n)
                     THEN Lifecycle(hv, n, to, lookupFails, lifeFails)[n]
                     ELSE hv[n]]
         /\ vcall' = VCall(f, args,
                           \E n \in DomainNames :
                               Matches(match, n) /\ n \in lookupFails \cup lifeFails,
                           "list", listAllDomains(0))

shutdown_matching(match, force, open, listFails, lookupFails, lifeFails) ==
    matching("shutdown_matching", <<match, force>>, match, "shutoff",
             open, listFails, lookupFails, lifeFails)

start_matching(match, open, listFails, lookupFails, lifeFails) ==
    matching("start_matching", <<match>>, match, "running",
             open, listFails, lookupFails, lifeFails)

Opens == {"ok", "None", "raise"}

List ==
    /\ \E match \in Patterns, state \in States, open \in Opens, listFails \in BOOLEAN :
          list(match, state, open, listFails)
    /\ UNCHANGED <<vyosVars, flagVars, sessVars>>

Reboot ==
    /\ \E domain \in Names, open \in Opens :
          \E lookupFails, lifeFails \in {{}, {domain}} :
             reboot(domain, open, lookupFails, lifeFails)
    /\ UNCHANGED <<vyosVars, flagVars, sessVars>>

Shutdown ==
    /\ \E domain \in Names, force \in BOOLEAN, open \in Opens :
          \E lookupFails, lifeFails \in {{}, {domain}} :
             shutdown(domain, force, open, lookupFails, lifeFails)
    /\ UNCHANGED <<vyosVars, flagVars, sessVars>>

Start ==
    /\ \E domain \in Names, open \in Opens :
          \E lookupFails, lifeFails \in {{}, {domain}} :
             start(domain, open, lookupFails, lifeFails)
    /\ UNCHANGED <<vyosVars, flagVars, sessVars>>

ShutdownMatching ==
    /\ \E match \in Patterns, force \in BOOLEAN, open \in Opens, listFails \in BOOLEAN,
          lookupFails \in SUBSET DomainNames :
          \E lifeFails \in SUBSET (DomainNames \ lookupFails) :
             shutdown_matching(match, force, open, listFails, lookupFails, lifeFails)
    /\ UNCHANGED <<vyosVars, flagVars, sessVars>>

StartMatching ==
    /\ \E match \in Patterns, open \in Opens, listFails \in BOOLEAN,
          lookupFails \in SUBSET DomainNames :
          \E lifeFails \in SUBSET (DomainNames \ lookupFails) :
             start_matching(match, open, listFails, lookupFails, lifeFails)
    /\ UNCHANGED <<vyosVars, flagVars, sessVars>>

NextVirsh ==
    \/ List
    \/ Reboot
    \/ Shutdown
    \/ Start
    \/ ShutdownMatching
    \/ StartMatching

-----------------------------------------------------------------------------
(* Specifications *)

Init == InitVyos /\ InitFlags /\ InitSess /\ InitVirsh

Next ==
    \/ CallOp
    \/ CallConfig
    \/ sendline
    \/ expect_EOF
    \/ strip_output
    \/ close_session
    \/ NextCall

Spec == Init /\ [][Next]_vars

SpecSession == Init /\ [][NextSession]_vars

SpecVirsh == Init /\ [][NextVirsh]_vars

-----------------------------------------------------------------------------
(* Properties of run_op_mode_command and run_config_mode_command (Spec) *)

\* the lines execute_command has sent: all but the two setup lines of Router()
SentByExecute == SubSeq(sent, Len(InitLines) + 1, Len(sent))

\* the text of s before its first blank
FirstToken(s) ==
    LET blanks == {i \in 1..Len(s) : s[i] = " "}
    IN  IF blanks = {} THEN s
        ELSE SubSeq(s, 1, (CHOOSE i \in blanks : \A j \in blanks : i <= j) - 1)

IsPrefix(s, t) == Len(s) <= Len(t) /\ SubSeq(t, 1, Len(s)) = s

\* C1: every call that opened a session has closed it and force-terminated
\* its child by the time the call ends, whether it returns or raises.
C1_SessionClosedWhenCallEnds ==
    (pc = "done" /\ session # "none") => (session = "closed" /\ terminated)

\* C2: on N raw lines execute_command returns the N lines when N < 3;
\* when N >= 3 it returns them without the first 1 and last 2 (no config
\* mode) or without the first 4 and last 3 (config mode), in order.
C2_StripsAsSpecified ==
    ret = "output" =>
        LET lines == RstripAll(before)
            N == Len(before)
        IN  output = IF N < 3 THEN lines
                     ELSE IF fn = "config" THEN SubSeq(lines, 5, N - 3)
                     ELSE SubSeq(lines, 2, N - 2)

C4_FirstTokenAndFiveLines ==
    fn = "config" =>
        /\ session # "none" => FirstToken(command) \in ConfigPrefixes
        /\ IsPrefix(SentByExecute, << Str_config, command, Str_commit, Str_save, Str_exit >>)
        /\ session = "closed" =>
              /\ SentByExecute = << Str_config, command, Str_commit, Str_save, Str_exit >>
              /\ eof

\* C4 amended: a command is sent only if it starts, as a string, with one of
\* the allow-list words; the lines execute_command sends for an accepted
\* command are config, the command, commit, save, exit, exit, after the two
\* setup lines of Router(); the session is closed only after all of them
\* were sent and the output was read.
C4_PrefixAndSixLines ==
    fn = "config" =>
        /\ IF StartsWithAny(command, ConfigPrefixes)
           THEN session # "none"
           ELSE session = "none" /\ sent = <<>> /\ sendq = <<>> /\ ret = "None"
        /\ session # "none" =>
              /\ IsPrefix(InitLines, sent)
              /\ IsPrefix(SentByExecute,
                          << Str_config, command, Str_commit, Str_save, Str_exit, Str_exit >>)
        /\ (eof \/ session = "closed") =>
              SentByExecute = << Str_config, command, Str_commit, Str_save, Str_exit, Str_exit >>
        /\ session = "closed" => eof

C4_Witness ==
    /\ fn = "config"
    /\ command = Str_set \o <<"t","i","n","g","s"," ","a">>
    /\ session = "closed"
    /\ ret = "output"

\* C5: run_config_mode_command with a set command whose output contains
\* "already exists" fails with ConfigError instead of returning the output,
\* and the session's modified flag stays false.
C5_AlreadyExistsRaisesConfigError ==
    ( /\ fn = "config"
      /\ StartsWith(command, Str_set)
      /\ pc = "done"
      /\ \E i \in 1..Len(before) : Contains(before[i], AlreadyExists) )
    => (ret = "raised" /\ exc = "ConfigError" /\ ~session_modified)

\* C10: for every number of raw lines and both modes the stripping step
\* raises nothing and returns at most as many lines as it was given.
C10_StrippingNeverRaises ==
    eof => (exc # "IndexError" /\ Len(output) <= Len(before))

-----------------------------------------------------------------------------
(* Properties of the session state machine (SpecSession) *)

\* C6: in every reachable state of a session, configMode = false implies
\* modified = false.
C6_OperationalImpliesUnmodified == ~conf_mode => ~session_modified

\* C7: exit in configuration mode with uncommitted or unsaved changes and no
\* force fails with VyOSError and leaves configMode alone; exit with force
\* always ends in operational mode with modified cleared.
C7_ExitContract ==
    (op.name = "exit" /\ op.pre.conf) =>
        /\ ((op.pre.mod \/ ~op.pre.saved) /\ ~op.force) =>
              (op.exc = "VyOSError" /\ conf_mode = op.pre.conf)
        /\ op.force => (~conf_mode /\ ~session_modified)

\* C8: commit in configuration mode with modified = true fails with
\* ConfigLocked whenever the output tells of another commit in progress,
\* with CommitError on any other commit failure, leaves modified and saved
\* alone when it fails, and only on success clears modified and sets saved
\* to false.
C8_CommitContract ==
    (op.name = "commit" /\ op.pre.conf /\ op.pre.mod) =>
        /\ Search(AnotherCommit, op.out) => op.exc = "ConfigLocked"
        /\ (Search(CommitFailed, op.out) /\ ~Search(AnotherCommit, op.out)) =>
              op.exc = "CommitError"
        /\ op.exc # "" =>
              (session_modified = op.pre.mod /\ session_saved = op.pre.saved)
        /\ op.exc = "" <=> (~session_modified /\ ~session_saved)

-----------------------------------------------------------------------------
(* Properties of virsh.py (SpecVirsh) *)

\* C9: a call in which the library fails at any step, or which is given an
\* invalid state, returns False; no exception and no exit leaves the call.
C9_FailuresReturnFalse ==
    /\ vcall.failed => vcall.kind = "False"
    /\ vcall.kind \notin {"SystemExit", "libvirtError"}

====
